---- MODULE Spec2Model ----
(***************************************************************************)
(* UseCaseGen-08 (src/app.py): a chat front-end over a tabular knowledge   *)
(* base.  A user turn is analysed for a greeting, then either expanded as  *)
(* a "show all" follow-up of the previous ambiguity listing, or handed to  *)
(* find_best_answer, which scans the unique Access Codes, keeps the codes  *)
(* achieving the best fuzzy score and answers no-match / single / ambiguous.*)
(*                                                                         *)
(* Text is modelled as a sequence of tokens: the literal fragments of the  *)
(* source's f-strings are one token each, a code is spelled character by   *)
(* character, so that rendering a code into a message and extracting it    *)
(* again with CODE_EXTRACTION_PATTERN are two different computations.      *)
(* fuzz.token_set_ratio is an external library: its results for a query    *)
(* are drawn from ScoreVals.                                               *)
(*                                                                         *)
(* Spec is the app: one action, a whole run of the chat handler on a       *)
(* prompt, find_best_answer returning any value it can return on the sheet *)
(* (a prompt typed again may score differently: the queries behind the few *)
(* prompts of the model are not told apart).  SpecFind is one call of      *)
(* find_best_answer, stepped through its loop, the two scores of a code    *)
(* being drawn when the loop reaches the code.                             *)
(***************************************************************************)
EXTENDS Integers, Sequences, FiniteSets, TLC

\* data_df and messages are the program's state.  The other variables are the
\* locals of the last run of the chat handler (prompt .. called) and of a run of
\* find_best_answer in progress (pc .. result).
VARIABLES data_df, messages, turns, prompt, greeting_response, search_query,
          final_response, csv_match_found, csv_answer, called,
          pc, codes, idx, best_score, score_to_codes, scored, result

handler_vars == <<prompt, greeting_response, search_query, final_response,
                  csv_match_found, csv_answer, called>>

scan_vars == <<pc, codes, idx, best_score, score_to_codes, scored, result>>

vars == <<data_df, messages, turns, handler_vars, scan_vars>>

(* ------------------------------ bounds -------------------------------- *)

MaxRows == 2

MaxTurns == 3

(* --------------------------- configuration ---------------------------- *)

MIN_MATCH_SCORE == 75

GREETINGS == <<"hi", "hello", "hey", "good morning", "good afternoon">>

\* random.choice(GREETING_RESPONSES) and random.choice(CSV_MATCH_SNIPPETS): the
\* three phrases of each list are one token, no code reads which one was picked.
GREETING_RESPONSES == "<one of: Hello there! / Hi! / Hey! Good to chat.>"

CSV_MATCH_SNIPPETS == "<one of the three details-found connectors>"

AMBIGUOUS_SHOW_ALL_SNIPPET == "Displaying details for all the highly-matched 08 Codes below:"

CSV_NOT_FOUND_SNIPPET == "I couldn't find a close match for that 08 Code or query in my knowledge base. Could you try rephrasing or check the exact code or setting name?"

SHOW_ALL_PATTERN == {"show all", "all options", "give all", "all of them"}

AMBIGUOUS_HEADER == "### Ambiguous Search Result"

DETAILS_HEADER == "### Details for Code: "

\* The module's strings cannot hold the backtick character: it is written [bt].
BULLET == "* [bt]"

BACKTICK == "[bt]"

EXTRACTION_FAILED_MESSAGE == "I couldn't identify the codes from the previous context. Please try searching for a single code name."

READY_MESSAGE == " I'm ready to search my knowledge base. What 08 code or setting name can I look up for you?"

SPECIALIZED_MESSAGE == "I'm a specialized tool. I couldn't find an answer for that general topic. Try asking about a specific 08 Code or Setting Name!"

CLARITY_CONNECTOR == "I need a little more clarity."

INITIAL_GREETING == "Hello! I can search my knowledge base for specific 08 Code mappings by code or setting name."

SHOW_ALL_HANDLED == <<"SHOW_ALL_HANDLED">>

NoneValue == <<"None">>

(* ------------------------- characters and codes ----------------------- *)

\* The characters used by the codes of the model, in code-point order.
CodePoints == <<"-", "1", "2", "3", "4", "7", "8", "A", "B", "c", "d">>

\* The character class [A-Z0-9-] of CODE_EXTRACTION_PATTERN.
PatternChars == {"-", "1", "2", "3", "4", "7", "8", "A", "B"}

\* A cell of the 'Access Code' column: a str ("PR-1") or an int (7), with its text.
StrCode(chars) == [ty |-> "str", tx |-> chars]

IntCode(chars) == [ty |-> "int", tx |-> chars]

StrCodes == { StrCode(<<"A", "-", "1">>), StrCode(<<"B", "2">>),
              StrCode(<<"c", "3">>), StrCode(<<"d", "4">>) }

IntCodes == { IntCode(<<"7">>), IntCode(<<"8">>) }

Names == {"Print Quality Mode"}

ScoreVals == {0, 60, 75, 100}

Max(a, b) == IF a >= b THEN a ELSE b

(* ------------------------------ text ---------------------------------- *)

Range(s) == { s[i] : i \in DOMAIN s }

\* "needle in text" for a literal fragment of the templates.
Contains(text, needle) == \E i \in DOMAIN text : text[i] = needle

Whitespace == {" "}

LeadingPunctuation == {" ", ",", ".", ":", ";"}

RECURSIVE LStripSet(_, _)
LStripSet(s, drop) ==
    IF s # <<>> /\ Head(s) \in drop THEN LStripSet(Tail(s), drop) ELSE s

RECURSIVE RStripSet(_, _)
RStripSet(s, drop) ==
    IF s # <<>> /\ s[Len(s)] \in drop
    THEN RStripSet(SubSeq(s, 1, Len(s) - 1), drop)
    ELSE s

\* str.strip()
Strip(s) == RStripSet(LStripSet(s, Whitespace), Whitespace)

\* str.lower() on a word of a prompt.
LowerWord(w) ==
    CASE w = "Show All" -> "show all"
      [] w = "Hi"       -> "hi"
      [] OTHER          -> w

Lower(s) == [i \in DOMAIN s |-> LowerWord(s[i])]

\* str(access_code)
Str(code) == code.tx

CodePointOf(ch) == CHOOSE i \in DOMAIN CodePoints : CodePoints[i] = ch

RECURSIVE LexLess(_, _)
LexLess(a, b) ==
    IF b = <<>> THEN FALSE
    ELSE IF a = <<>> THEN TRUE
    ELSE IF Head(a) # Head(b) THEN CodePointOf(Head(a)) < CodePointOf(Head(b))
    ELSE LexLess(Tail(a), Tail(b))

\* The order sorted() uses on the codes of one column: ints by value, strs by
\* code point.
CodeLess(a, b) ==
    IF a.ty = "int" /\ b.ty = "int"
    THEN \/ Len(a.tx) < Len(b.tx)
         \/ Len(a.tx) = Len(b.tx) /\ LexLess(a.tx, b.tx)
    ELSE LexLess(a.tx, b.tx)

RECURSIVE Sorted(_)
\* sorted(list(set(...)))
Sorted(S) ==
    IF S = {} THEN <<>>
    ELSE LET m == CHOOSE x \in S : \A y \in S \ {x} : CodeLess(x, y)
         IN  <<m>> \o Sorted(S \ {m})

RECURSIVE Concat(_)
Concat(ss) == IF ss = <<>> THEN <<>> ELSE Head(ss) \o Concat(Tail(ss))

(* ------------------------------ dataset ------------------------------- *)

Row(code, name, i) ==
    [AccessCode |-> code, SettingItemName |-> name,
     SubCode |-> "s" \o ToString(i), Meaning |-> "m" \o ToString(i)]

\* The sheets the model loads: up to MaxRows rows, the Access Code column
\* holding either strs or ints.
TablesOver(codeSet) ==
    UNION { { [i \in 1..n |-> Row(c[i], m[i], i)] :
                c \in [1..n -> codeSet], m \in [1..n -> Names] } : n \in 0..MaxRows }

Datasets == TablesOver(StrCodes) \cup TablesOver(IntCodes)

\* RowsOf keeping the first matching row only.
RowsOf_FirstOnly(df, code) ==
    LET rows == SelectSeq(df, LAMBDA r : r.AccessCode = code)
    IN  IF rows = <<>> THEN <<>> ELSE <<rows[1]>>

\* df[df['Access Code'] == code]
RowsOf(df, code) == SelectSeq(df, LAMBDA r : r.AccessCode = code)

RECURSIVE UniqueFrom(_, _)
UniqueFrom(df, seen) ==
    IF df = <<>> THEN <<>>
    ELSE IF Head(df).AccessCode \in seen THEN UniqueFrom(Tail(df), seen)
    ELSE <<Head(df).AccessCode>> \o UniqueFrom(Tail(df), seen \cup {Head(df).AccessCode})

\* df['Access Code'].unique(): first-seen order
Unique(df) == UniqueFrom(df, {})

(* ----------------------------- rendering ------------------------------ *)

\* sub_table_df.to_markdown(index=False)
TableMarkdown(matched_df) ==
    <<"| Sub Code | Meaning |\n", "|:--|:--|">>
    \o Concat([i \in DOMAIN matched_df |->
                 <<"\n", "| ", matched_df[i].SubCode, " | ", matched_df[i].Meaning, " |">>])

format_single_code_details(access_code, matched_df) ==
    LET setting_item_name == matched_df[1].SettingItemName
        header_block ==
            <<"**08 Code:** ", BACKTICK>> \o Str(access_code) \o <<BACKTICK, "\n\n">>
            \o <<"**Setting Item Name:** ", setting_item_name, "\n\n">>
    IN  <<DETAILS_HEADER, BACKTICK>> \o Str(access_code) \o <<BACKTICK, "\n\n">>
        \o header_block
        \o <<"Available options:\n\n">>
        \o TableMarkdown(matched_df)
        \o <<"\n\n", "---">>

\* AMBIGUOUS_MATCH_SNIPPET.format(score=score)
AmbiguousMatchSnippet(score) ==
    <<"I found multiple possible matches that score ", ToString(score),
      "%. Please try searching for one of the specific 08 Codes below for the full details:">>

\* the bullet list of format_ambiguous_output, one line per code
RECURSIVE CodeList(_)
CodeList(listing) ==
    IF listing = <<>> THEN <<>>
    ELSE <<BULLET>> \o Str(Head(listing)) \o <<BACKTICK>>
         \o (IF Len(listing) > 1 THEN <<"\n">> ELSE <<>>)
         \o CodeList(Tail(listing))

\* format_ambiguous_output with the codes listed in the order they are given in.
format_ambiguous_output_Unsorted(matched_codes, score) ==
    [found  |-> TRUE,
     answer |-> <<AMBIGUOUS_HEADER, "\n\n">> \o AmbiguousMatchSnippet(score)
                \o <<"\n\n">> \o CodeList(matched_codes)]

\* matched_codes is a list; sorted(list(set(matched_codes))) is what is listed.
format_ambiguous_output(matched_codes, score) ==
    [found  |-> TRUE,
     answer |-> <<AMBIGUOUS_HEADER, "\n\n">> \o AmbiguousMatchSnippet(score)
                \o <<"\n\n">> \o CodeList(Sorted(Range(matched_codes)))]

(* ----------------------------- extraction ----------------------------- *)

RECURSIVE RunEnd(_, _)
\* The first position at or after i that holds no character of [A-Z0-9-].
RunEnd(text, i) ==
    IF i <= Len(text) /\ text[i] \in PatternChars THEN RunEnd(text, i + 1) ELSE i

RECURSIVE FindAllFrom(_, _)
FindAllFrom(text, i) ==
    IF i > Len(text) THEN <<>>
    ELSE IF text[i] = BULLET
    THEN LET j == RunEnd(text, i + 1)
         IN  IF j > i + 1 /\ j <= Len(text) /\ text[j] = BACKTICK
             THEN <<StrCode(SubSeq(text, i + 1, j - 1))>> \o FindAllFrom(text, j + 1)
             ELSE FindAllFrom(text, i + 1)
    ELSE FindAllFrom(text, i + 1)

\* re.findall(CODE_EXTRACTION_PATTERN, text): the groups, as strs, in text order
CODE_EXTRACTION_PATTERN(text) == FindAllFrom(text, 1)

\* re.search(SHOW_ALL_PATTERN, search_query.lower())
IsShowAllCommand(query) == \E i \in DOMAIN query : LowerWord(query[i]) \in SHOW_ALL_PATTERN

(* ------------------------------ greeting ------------------------------ *)

analyze_prompt_for_multiple_intents(p) ==
    LET q_lower == Strip(Lower(p))
        hits == { g \in DOMAIN GREETINGS : q_lower # <<>> /\ q_lower[1] = GREETINGS[g] }
    IN  IF hits = {} THEN [greeting |-> <<>>, query |-> p]
        ELSE LET rest == LStripSet(Strip(Tail(q_lower)), LeadingPunctuation)
             IN  IF rest = <<>>
                 THEN [greeting |-> <<GREETING_RESPONSES>>, query |-> p]
                 ELSE [greeting |-> <<GREETING_RESPONSES>>, query |-> rest]

(* ------------------------------ matching ------------------------------ *)

\* score_to_codes.setdefault(best_score, []).append(access_code)
SetDefaultAppend(dict, key, value) ==
    IF key \in DOMAIN dict
    THEN [dict EXCEPT ![key] = Append(@, value)]
    ELSE dict @@ (key :> <<value>>)

\* ScanUpdate with the reset on a strictly higher score replaced by an append.
ScanUpdate_KeepsTies(acc, access_code, current_max_score, min_score) ==
    IF current_max_score > acc.best_score
    THEN [best_score |-> current_max_score,
          score_to_codes |->
              (current_max_score :>
                  ((IF acc.best_score \in DOMAIN acc.score_to_codes
                    THEN acc.score_to_codes[acc.best_score] ELSE <<>>) \o <<access_code>>))]
    ELSE IF current_max_score = acc.best_score /\ current_max_score >= min_score
    THEN [acc EXCEPT !.score_to_codes = SetDefaultAppend(@, acc.best_score, access_code)]
    ELSE acc

\* ScanUpdate with the threshold guard of the tie branch turned round.
ScanUpdate_GuardReversed(acc, access_code, current_max_score, min_score) ==
    IF current_max_score > acc.best_score
    THEN [best_score |-> current_max_score,
          score_to_codes |-> (current_max_score :> <<access_code>>)]
    ELSE IF current_max_score = acc.best_score /\ current_max_score <= min_score
    THEN [acc EXCEPT !.score_to_codes = SetDefaultAppend(@, acc.best_score, access_code)]
    ELSE acc

\* ScanUpdate with every tie recorded, whatever the threshold.
ScanUpdate_NoThresholdGuard(acc, access_code, current_max_score, min_score) ==
    IF current_max_score > acc.best_score
    THEN [best_score |-> current_max_score,
          score_to_codes |-> (current_max_score :> <<access_code>>)]
    ELSE IF current_max_score = acc.best_score
    THEN [acc EXCEPT !.score_to_codes = SetDefaultAppend(@, acc.best_score, access_code)]
    ELSE acc

\* ScanUpdate with a strictly higher score adding its key to score_to_codes
\* instead of rebuilding it.
ScanUpdate_KeepsOldKeys(acc, access_code, current_max_score, min_score) ==
    IF current_max_score > acc.best_score
    THEN [best_score |-> current_max_score,
          score_to_codes |-> (current_max_score :> <<access_code>>) @@ acc.score_to_codes]
    ELSE IF current_max_score = acc.best_score /\ current_max_score >= min_score
    THEN [acc EXCEPT !.score_to_codes = SetDefaultAppend(@, acc.best_score, access_code)]
    ELSE acc

\* ScanUpdate with a tie recorded only strictly above the threshold.
ScanUpdate_TieAboveThreshold(acc, access_code, current_max_score, min_score) ==
    IF current_max_score > acc.best_score
    THEN [best_score |-> current_max_score,
          score_to_codes |-> (current_max_score :> <<access_code>>)]
    ELSE IF current_max_score = acc.best_score /\ current_max_score > min_score
    THEN [acc EXCEPT !.score_to_codes = SetDefaultAppend(@, acc.best_score, access_code)]
    ELSE acc

\* One pass of the loop body of find_best_answer, after the two scores are taken.
ScanUpdate(acc, access_code, current_max_score, min_score) ==
    IF current_max_score > acc.best_score
    THEN [best_score |-> current_max_score,
          score_to_codes |-> (current_max_score :> <<access_code>>)]
    ELSE IF current_max_score = acc.best_score /\ current_max_score >= min_score
    THEN [acc EXCEPT !.score_to_codes = SetDefaultAppend(@, acc.best_score, access_code)]
    ELSE acc

\* list(set(codes)): the orders a set may be enumerated in, each code once.
Enumerations(S) == { e \in [1..Cardinality(S) -> S] : Range(e) = S }

\* The values list(set(score_to_codes[best_score])) may take.
TiedEnumerations(best, dict) ==
    IF best \in DOMAIN dict THEN Enumerations(Range(dict[best])) ELSE {<<>>}

\* Resolve with the threshold check excluding the threshold itself.
Resolve_ThresholdExclusive(best, dict, df, min_score, best_score_codes) ==
    IF best <= min_score \/ dict = <<>>
    THEN [found |-> FALSE, answer |-> NoneValue]
    ELSE IF Len(best_score_codes) > 1
         THEN format_ambiguous_output(best_score_codes, best)
         ELSE LET best_match_code == best_score_codes[1]
                  matched_df == RowsOf(df, best_match_code)
              IN  IF matched_df = <<>>
                  THEN [found |-> FALSE, answer |-> NoneValue]
                  ELSE [found  |-> TRUE,
                        answer |-> format_single_code_details(best_match_code, matched_df)]

\* Resolve with a perfect score short-cutting the ambiguity check: the first
\* code that reached 100 is answered alone.
Resolve_ExactShortcut(best, dict, df, min_score, best_score_codes) ==
    IF best < min_score \/ dict = <<>>
    THEN [found |-> FALSE, answer |-> NoneValue]
    ELSE IF Len(best_score_codes) > 1 /\ best < 100
         THEN format_ambiguous_output(best_score_codes, best)
         ELSE LET best_match_code == dict[best][1]
                  matched_df == RowsOf(df, best_match_code)
              IN  IF matched_df = <<>>
                  THEN [found |-> FALSE, answer |-> NoneValue]
                  ELSE [found  |-> TRUE,
                        answer |-> format_single_code_details(best_match_code, matched_df)]

\* find_best_answer after the loop: threshold, ambiguity check, single match.
\* best_score_codes is list(set(score_to_codes[best_score])), in the order the
\* set happened to yield its codes.
Resolve(best, dict, df, min_score, best_score_codes) ==
    IF best < min_score \/ dict = <<>>
    THEN [found |-> FALSE, answer |-> NoneValue]
    ELSE IF Len(best_score_codes) > 1
         THEN format_ambiguous_output(best_score_codes, best)
         ELSE LET best_match_code == best_score_codes[1]
                  matched_df == RowsOf(df, best_match_code)
              IN  IF matched_df = <<>>
                  THEN [found |-> FALSE, answer |-> NoneValue]
                  ELSE [found  |-> TRUE,
                        answer |-> format_single_code_details(best_match_code, matched_df)]

(* -------------------------- find_best_answer -------------------------- *)

\* The two fuzz.token_set_ratio results of one query: score_code[c] against
\* str(c), score_name[n] against the setting item name n.
CodeScores(df) == [Range(Unique(df)) -> ScoreVals]

NameScores(df) == [{ df[i].SettingItemName : i \in DOMAIN df } -> ScoreVals]

\* df[df['Access Code'] == access_code]['Setting item name'].iloc[0]
SettingNameOf(df, access_code) == RowsOf(df, access_code)[1].SettingItemName

RECURSIVE ScanFrom(_, _, _, _, _)
\* The loop of find_best_answer from position k of the unique codes on;
\* current[k] is current_max_score of the k-th code.
ScanFrom(acc, unique_codes, current, min_score, k) ==
    IF k > Len(unique_codes) THEN acc
    ELSE ScanFrom(ScanUpdate(acc, unique_codes[k], current[k], min_score),
                  unique_codes, current, min_score, k + 1)

\* The state of the scan after its loop.
Scan(unique_codes, current, min_score) ==
    ScanFrom([best_score |-> 0, score_to_codes |-> <<>>], unique_codes, current, min_score, 1)

\* find_best_answer(query, df), the query being given by its scores: the values
\* it may return, one for each order the tied set may be enumerated in.
find_best_answer(df, score_code, score_name, min_score) ==
    LET unique_codes == Unique(df)
        current == [k \in DOMAIN unique_codes |->
                      Max(score_code[unique_codes[k]],
                          score_name[SettingNameOf(df, unique_codes[k])])]
        acc == Scan(unique_codes, current, min_score)
    IN  { Resolve(acc.best_score, acc.score_to_codes, df, min_score, best_score_codes) :
            best_score_codes \in TiedEnumerations(acc.best_score, acc.score_to_codes) }

\* What find_best_answer can return on a sheet, over all queries.
FindBestAnswers ==
    [df \in Datasets |->
        UNION { find_best_answer(df, score_code, score_name, MIN_MATCH_SCORE) :
                  score_code \in CodeScores(df), score_name \in NameScores(df) }]

(* ---------------------------- chat handler ---------------------------- *)

Message(role, content) == [role |-> role, content |-> content]

\* What a user may type: a query, a query with surrounding blanks, a show-all
\* command, and the same after a greeting, and a bare greeting.
Prompts ==
    { <<"print quality">>, <<"print quality", " ">>, <<"Show All">>,
      <<"hi", "show all">>, <<"Hi", "print quality">>, <<"hello">> }

\* The details of every extracted code that has rows, in extraction order.
CombinedDetails(matched_codes, df) ==
    Concat([k \in DOMAIN matched_codes |->
              LET matched_df == RowsOf(df, matched_codes[k])
              IN  IF matched_df # <<>>
                  THEN format_single_code_details(matched_codes[k], matched_df)
                  ELSE <<>>])

\* ContextualLogic looking for the ambiguity listing in the whole history, the
\* latest assistant message that holds one, instead of the last message only.
ContextualLogic_WholeHistory(history, query, greeting, df, answer) ==
    LET ask == [called |-> TRUE, final_response |-> greeting,
                csv_match_found |-> answer.found, csv_answer |-> answer.answer]
        listings == { i \in 1..(Len(history) - 1) :
                        /\ history[i].role = "assistant"
                        /\ Contains(history[i].content, AMBIGUOUS_HEADER) }
    IN
    IF IsShowAllCommand(query) /\ listings # {}
    THEN LET latest == CHOOSE i \in listings : \A j \in listings : j <= i
             matched_codes == CODE_EXTRACTION_PATTERN(history[latest].content)
         IN  IF matched_codes # <<>>
             THEN [called |-> FALSE,
                   final_response |-> greeting \o <<" ", AMBIGUOUS_SHOW_ALL_SNIPPET, "\n\n">>
                                      \o CombinedDetails(matched_codes, df),
                   csv_match_found |-> TRUE,
                   csv_answer |-> SHOW_ALL_HANDLED]
             ELSE [called |-> FALSE,
                   final_response |-> <<EXTRACTION_FAILED_MESSAGE>>,
                   csv_match_found |-> FALSE,
                   csv_answer |-> <<>>]
    ELSE ask

\* The contextual logic of the handler: the show-all branch answers by itself,
\* every other case calls find_best_answer, whose return value is answer.
ContextualLogic(history, query, greeting, df, answer) ==
    LET ask == [called |-> TRUE, final_response |-> greeting,
                csv_match_found |-> answer.found, csv_answer |-> answer.answer]
    IN
    IF Len(history) >= 2
    THEN LET last_assistant_message == history[Len(history) - 1].content
         IN  IF IsShowAllCommand(query) /\ Contains(last_assistant_message, AMBIGUOUS_HEADER)
             THEN LET matched_codes == CODE_EXTRACTION_PATTERN(last_assistant_message)
                  IN  IF matched_codes # <<>>
                      THEN [called |-> FALSE,
                            final_response |-> greeting \o <<" ", AMBIGUOUS_SHOW_ALL_SNIPPET, "\n\n">>
                                               \o CombinedDetails(matched_codes, df),
                            csv_match_found |-> TRUE,
                            csv_answer |-> SHOW_ALL_HANDLED]
                      ELSE [called |-> FALSE,
                            final_response |-> <<EXTRACTION_FAILED_MESSAGE>>,
                            csv_match_found |-> FALSE,
                            csv_answer |-> <<>>]
             ELSE ask
    ELSE ask

\* FormatOutput without the fallback texts of a turn that found nothing and
\* greeted nobody: the response is left as the contextual logic built it.
FormatOutput_NoFallback(found, answer, response, query, p, greeting) ==
    IF found
    THEN IF answer # SHOW_ALL_HANDLED
         THEN IF Contains(answer, AMBIGUOUS_HEADER)
              THEN response \o <<" ", CLARITY_CONNECTOR, "\n\n">> \o answer
              ELSE IF Contains(answer, DETAILS_HEADER)
              THEN IF response # <<>>
                   THEN response \o <<" ", CSV_MATCH_SNIPPETS, "\n\n">> \o answer
                   ELSE <<CSV_MATCH_SNIPPETS, "\n\n">> \o answer
              ELSE response
         ELSE response
    ELSE IF Strip(query) = <<>> \/ query = Strip(p)
         THEN IF greeting # <<>>
              THEN response \o <<READY_MESSAGE>>
              ELSE response
         ELSE IF greeting # <<>>
         THEN response \o <<" ", CSV_NOT_FOUND_SNIPPET>>
         ELSE response

\* The formatting of the answer.
FormatOutput(found, answer, response, query, p, greeting) ==
    IF found
    THEN IF answer # SHOW_ALL_HANDLED
         THEN IF Contains(answer, AMBIGUOUS_HEADER)
              THEN response \o <<" ", CLARITY_CONNECTOR, "\n\n">> \o answer
              ELSE IF Contains(answer, DETAILS_HEADER)
              THEN IF response # <<>>
                   THEN response \o <<" ", CSV_MATCH_SNIPPETS, "\n\n">> \o answer
                   ELSE <<CSV_MATCH_SNIPPETS, "\n\n">> \o answer
              ELSE response
         ELSE response
    ELSE IF Strip(query) = <<>> \/ query = Strip(p)
         THEN IF greeting # <<>>
              THEN response \o <<READY_MESSAGE>>
              ELSE <<SPECIALIZED_MESSAGE>>
         ELSE IF greeting # <<>>
         THEN response \o <<" ", CSV_NOT_FOUND_SNIPPET>>
         ELSE <<CSV_NOT_FOUND_SNIPPET>>

NoScan ==
    /\ pc = "none"
    /\ codes = <<>>
    /\ idx = 0
    /\ best_score = 0
    /\ score_to_codes = <<>>
    /\ scored = <<>>
    /\ result = [found |-> FALSE, answer |-> <<>>]

NoTurn ==
    /\ prompt = <<>>
    /\ greeting_response = <<>>
    /\ search_query = <<>>
    /\ final_response = <<>>
    /\ csv_match_found = FALSE
    /\ csv_answer = <<>>
    /\ called = FALSE

\* The app after its first run: the sheet is loaded, the history holds the greeting.
Init ==
    /\ data_df \in Datasets
    /\ messages = <<Message("assistant", <<INITIAL_GREETING>>)>>
    /\ turns = 0
    /\ NoTurn
    /\ NoScan

\* Chat without the append of the prompt: the history the contextual logic
\* reads ends with the last response, and only the new response is recorded.
Chat_ResponseOnly(p, answer) ==
    /\ turns < MaxTurns
    /\ LET a == analyze_prompt_for_multiple_intents(p)
           history == messages
           c == ContextualLogic(history, a.query, a.greeting, data_df, answer)
           response == FormatOutput(c.csv_match_found, c.csv_answer, c.final_response,
                                    a.query, p, a.greeting)
       IN  /\ messages' = Append(history, Message("assistant", response))
           /\ prompt' = p
           /\ greeting_response' = a.greeting
           /\ search_query' = a.query
           /\ final_response' = response
           /\ csv_match_found' = c.csv_match_found
           /\ csv_answer' = c.csv_answer
           /\ called' = c.called
    /\ turns' = turns + 1
    /\ UNCHANGED <<data_df, scan_vars>>

\* One run of the chat handler on a prompt: the prompt is appended to the
\* history, analysed, answered by the show-all branch or by find_best_answer
\* (answer is what it returns for the search query), and the formatted response
\* is appended to the history.
Chat(p, answer) ==
    /\ turns < MaxTurns
    /\ LET a == analyze_prompt_for_multiple_intents(p)
           history == Append(messages, Message("user", p))
           c == ContextualLogic(history, a.query, a.greeting, data_df, answer)
           response == FormatOutput(c.csv_match_found, c.csv_answer, c.final_response,
                                    a.query, p, a.greeting)
       IN  /\ messages' = Append(history, Message("assistant", response))
           /\ prompt' = p
           /\ greeting_response' = a.greeting
           /\ search_query' = a.query
           /\ final_response' = response
           /\ csv_match_found' = c.csv_match_found
           /\ csv_answer' = c.csv_answer
           /\ called' = c.called
    /\ turns' = turns + 1
    /\ UNCHANGED <<data_df, scan_vars>>

Next ==
    \E p \in Prompts, answer \in FindBestAnswers[data_df] : Chat(p, answer)

Spec == Init /\ [][Next]_vars

(* ------------------- find_best_answer, step by step ------------------- *)

\* A call of find_best_answer on the loaded sheet.
InitFind ==
    /\ data_df \in Datasets
    /\ messages = <<Message("assistant", <<INITIAL_GREETING>>)>>
    /\ turns = 0
    /\ NoTurn
    /\ pc = "scan"
    /\ codes = Unique(data_df)
    /\ idx = 1
    /\ best_score = 0
    /\ score_to_codes = <<>>
    /\ scored = <<>>
    /\ result = [found |-> FALSE, answer |-> <<>>]

\* One iteration of the loop over the unique codes.
ScanStep(score_code, score_name) ==
    /\ pc = "scan"
    /\ idx <= Len(codes)
    /\ LET current_max_score == Max(score_code, score_name)
           acc == ScanUpdate([best_score |-> best_score, score_to_codes |-> score_to_codes],
                             codes[idx], current_max_score, MIN_MATCH_SCORE)
       IN  /\ best_score' = acc.best_score
           /\ score_to_codes' = acc.score_to_codes
           /\ scored' = Append(scored, current_max_score)
    /\ idx' = idx + 1
    /\ UNCHANGED <<data_df, messages, turns, handler_vars, pc, codes, result>>

\* The threshold check, the ambiguity check and the single match, and the return.
Return ==
    /\ pc = "scan"
    /\ idx > Len(codes)
    /\ \E best_score_codes \in TiedEnumerations(best_score, score_to_codes) :
          result' = Resolve(best_score, score_to_codes, data_df, MIN_MATCH_SCORE,
                            best_score_codes)
    /\ pc' = "returned"
    /\ UNCHANGED <<data_df, messages, turns, handler_vars, codes, idx, best_score,
                   score_to_codes, scored>>

NextFind ==
    \/ \E score_code \in ScoreVals, score_name \in ScoreVals : ScanStep(score_code, score_name)
    \/ Return

SpecFind == InitFind /\ [][NextFind]_vars

(* ====================== properties: find_best_answer ================== *)

RECURSIVE MaxOf(_)
\* The highest of the scores, 0 when there is none.
MaxOf(scores) == IF scores = <<>> THEN 0 ELSE Max(Head(scores), MaxOf(Tail(scores)))

\* The codes score_to_codes holds, under any key.
Recorded == UNION { Range(score_to_codes[s]) : s \in DOMAIN score_to_codes }

\* The codes scanned so far that score the highest score seen so far.
ArgMax == { codes[k] : k \in { j \in DOMAIN scored : scored[j] = MaxOf(scored) } }

RECURSIVE Until(_, _, _)
\* The first position from i on that holds stop, Len(text) + 1 when none does.
Until(text, i, stop) ==
    IF i > Len(text) \/ text[i] = stop THEN i ELSE Until(text, i + 1, stop)

RECURSIVE Quoted(_, _, _)
\* What the text holds between each opener and the next backtick, in text order.
Quoted(text, i, opener) ==
    IF i > Len(text) THEN <<>>
    ELSE IF text[i] = opener
    THEN LET j == Until(text, i + 1, BACKTICK)
         IN  <<SubSeq(text, i + 1, j - 1)>> \o Quoted(text, j + 1, opener)
    ELSE Quoted(text, i + 1, opener)

\* The codes an ambiguity listing shows, one per bullet.
ListedCodes(text) == Quoted(text, 1, BULLET)

RECURSIVE DetailCodesFrom(_, _)
\* The codes whose details a text shows, one per details heading.
DetailCodesFrom(text, i) ==
    IF i >= Len(text) THEN <<>>
    ELSE IF text[i] = DETAILS_HEADER
    THEN LET j == Until(text, i + 2, BACKTICK)
         IN  <<SubSeq(text, i + 2, j - 1)>> \o DetailCodesFrom(text, j + 1)
    ELSE DetailCodesFrom(text, i + 1)

DetailCodes(text) == DetailCodesFrom(text, 1)

\* The Sub Code cells of the table rows a text shows.
TableSubCodes(text) == { text[i + 1] : i \in { j \in DOMAIN text : text[j] = "| " /\ j < Len(text) } }

\* C1 (tie purge): during and after the scan no recorded code scores below the
\* best score, and when the code scanned last scored strictly higher than every
\* code before it (and than 0) the recorded codes are exactly that code.
C1_TiePurge ==
    pc \in {"scan", "returned"} =>
        /\ \A k \in DOMAIN scored : codes[k] \in Recorded => scored[k] >= best_score
        /\ (scored # <<>> /\ scored[Len(scored)] > MaxOf(SubSeq(scored, 1, Len(scored) - 1)))
              => Recorded = {codes[Len(scored)]}

\* A code at the threshold was followed by a code scoring 100: only the second is kept.
C1_Witness ==
    /\ pc = "returned"
    /\ scored = <<75, 100>>
    /\ Recorded = {codes[2]}

\* C2 (threshold): find_best_answer returns (False, None) when the best score of
\* the unique codes is below MIN_MATCH_SCORE or no code was recorded, and a
\* match, single or ambiguous, when the best score is at least MIN_MATCH_SCORE.
C2_Threshold ==
    pc = "returned" =>
        /\ (MaxOf(scored) < MIN_MATCH_SCORE \/ Recorded = {})
              => result = [found |-> FALSE, answer |-> NoneValue]
        /\ MaxOf(scored) >= MIN_MATCH_SCORE
              => /\ result.found
                 /\ \/ Contains(result.answer, AMBIGUOUS_HEADER)
                    \/ Contains(result.answer, DETAILS_HEADER)

\* Every code scored, the best one below the threshold: no match.
C2_Witness ==
    /\ pc = "returned"
    /\ scored = <<60, 0>>
    /\ result = [found |-> FALSE, answer |-> NoneValue]

\* C3 (ambiguity): when two or more codes score the best score and it is at
\* least MIN_MATCH_SCORE, 100 included, the result is the ambiguity listing with
\* that score, its bullets are the tied codes, each once, and it shows no details.
C3_Ambiguity ==
    (pc = "returned" /\ Cardinality(ArgMax) >= 2 /\ MaxOf(scored) >= MIN_MATCH_SCORE) =>
        /\ result.found
        /\ Contains(result.answer, AMBIGUOUS_HEADER)
        /\ Contains(result.answer, ToString(MaxOf(scored)))
        /\ Len(ListedCodes(result.answer)) = Cardinality(ArgMax)
        /\ Range(ListedCodes(result.answer)) = { Str(c) : c \in ArgMax }
        /\ ~Contains(result.answer, DETAILS_HEADER)
        /\ TableSubCodes(result.answer) = {}

\* Two codes tie at 100 and the answer is the ambiguity listing.
C3_Witness ==
    /\ pc = "returned"
    /\ scored = <<100, 100>>
    /\ Contains(result.answer, AMBIGUOUS_HEADER)

\* C4 (single match): when exactly one code scores the best score and it is at
\* least MIN_MATCH_SCORE, the result is the details of that code: its table holds
\* every row of the sheet with that code and no row of another code.
C4_SingleMatch ==
    (pc = "returned" /\ Cardinality(ArgMax) = 1 /\ MaxOf(scored) >= MIN_MATCH_SCORE) =>
        LET code == CHOOSE c \in ArgMax : TRUE
        IN  /\ result.found
            /\ ~Contains(result.answer, AMBIGUOUS_HEADER)
            /\ DetailCodes(result.answer) = <<Str(code)>>
            /\ TableSubCodes(result.answer) =
                  { data_df[i].SubCode : i \in { j \in DOMAIN data_df : data_df[j].AccessCode = code } }

\* The single best code has two rows, and both are in the answer.
C4_Witness ==
    /\ pc = "returned"
    /\ Len(data_df) = 2
    /\ Len(codes) = 1
    /\ scored = <<75>>
    /\ result.found
    /\ Cardinality(TableSubCodes(result.answer)) = 2

\* The thresholds C10 compares.
Thresholds == {0, 60, 61, 75, 76, 100, 101}

\* What the selection keeps under threshold m for the scores of this scan: the
\* tied codes, none when the best score is below m.
TiedUnder(m) ==
    LET acc == Scan(codes, scored, m)
    IN  IF acc.best_score < m \/ acc.score_to_codes = <<>>
        THEN {}
        ELSE Range(acc.score_to_codes[acc.best_score])

FoundUnder(m) ==
    LET acc == Scan(codes, scored, m)
    IN  \E best_score_codes \in TiedEnumerations(acc.best_score, acc.score_to_codes) :
            Resolve(acc.best_score, acc.score_to_codes, data_df, m, best_score_codes).found

\* C10 (threshold monotonicity): for the sheet and the scores of a query, of two
\* thresholds the higher one selects no more tied codes than the lower one, and
\* no match under the lower one is no match under the higher one.
C10_ThresholdMonotone ==
    pc = "returned" =>
        \A m1 \in Thresholds, m2 \in Thresholds :
            m1 <= m2 =>
                /\ Cardinality(TiedUnder(m2)) <= Cardinality(TiedUnder(m1))
                /\ ~FoundUnder(m1) => ~FoundUnder(m2)

\* Two codes tie at 60: an ambiguity under threshold 60, no match under 75.
C10_Witness ==
    /\ pc = "returned"
    /\ scored = <<60, 60>>
    /\ Cardinality(TiedUnder(60)) = 2
    /\ TiedUnder(MIN_MATCH_SCORE) = {}
    /\ FoundUnder(60)
    /\ ~FoundUnder(MIN_MATCH_SCORE)

(* ======================== properties: chat handler ==================== *)

\* The assistant message before the prompt of the last turn, and its response.
PrevAssistant == messages[Len(messages) - 2].content

Response == messages[Len(messages)].content

IsListing(text) == Contains(text, AMBIGUOUS_HEADER)

RECURSIVE Dedup(_, _)
\* The sequence without the later occurrences of its elements.
Dedup(seq, seen) ==
    IF seq = <<>> THEN <<>>
    ELSE IF Head(seq) \in seen THEN Dedup(Tail(seq), seen)
    ELSE <<Head(seq)>> \o Dedup(Tail(seq), seen \cup {Head(seq)})

\* The show-all branch expanded the listing into details.
Expanded == csv_answer = SHOW_ALL_HANDLED

\* A code of the listing can be read back: it is spelled in [A-Z0-9-] only.
Extractable(text) ==
    \E k \in DOMAIN ListedCodes(text) :
        /\ ListedCodes(text)[k] # <<>>
        /\ Range(ListedCodes(text)[k]) \subseteq PatternChars

\* C5 (show-all round trip): a show-all command after an ambiguity listing is
\* answered with the details of exactly the listed codes, in the order of the
\* listing, each once.
C5_ShowAllRoundTrip ==
    (turns >= 1 /\ IsShowAllCommand(search_query) /\ IsListing(PrevAssistant)) =>
        DetailCodes(Response) = Dedup(ListedCodes(PrevAssistant), {})

NoMatchText(text) ==
    \/ Contains(text, CSV_NOT_FOUND_SNIPPET)
    \/ Contains(text, SPECIALIZED_MESSAGE)
    \/ Contains(text, READY_MESSAGE)

DetailText(text) ==
    \/ Contains(text, DETAILS_HEADER)
    \/ Contains(text, AMBIGUOUS_SHOW_ALL_SNIPPET)

ExtractionFailedText(text) == Contains(text, EXTRACTION_FAILED_MESSAGE)

\* C6 (extraction failure is distinct): a show-all command after an ambiguity
\* listing no code can be extracted from is answered with the extraction-failed
\* message, which is not and does not hold a not-found response.
C6_ExtractionFailedDistinct ==
    (/\ turns >= 1
     /\ IsShowAllCommand(search_query)
     /\ IsListing(PrevAssistant)
     /\ ~Extractable(PrevAssistant)) =>
        /\ ExtractionFailedText(Response)
        /\ ~NoMatchText(Response)

C8_OutcomePartition ==
    turns >= 1 =>
        Cardinality({ k \in 1..4 :
                        \/ k = 1 /\ NoMatchText(Response)
                        \/ k = 2 /\ DetailText(Response)
                        \/ k = 3 /\ IsListing(Response)
                        \/ k = 4 /\ ExtractionFailedText(Response) }) = 1

\* The codes the show-all branch reads back from the listing before the prompt.
ExtractedCodes == CODE_EXTRACTION_PATTERN(PrevAssistant)

\* C11 (empty group is no-match): a turn whose selected codes have no row in the
\* sheet is a no-match turn: when the show-all branch extracts codes of which
\* none has a row, the turn is not reported as a found match and its response
\* is a not-found response.
C11_EmptyGroupIsNoMatch ==
    (/\ turns >= 1
     /\ IsShowAllCommand(search_query)
     /\ IsListing(PrevAssistant)
     /\ ExtractedCodes # <<>>
     /\ \A k \in DOMAIN ExtractedCodes : RowsOf(data_df, ExtractedCodes[k]) = <<>>) =>
        /\ ~csv_match_found
        /\ NoMatchText(Response)

C13_Determinism ==
    pc = "returned" =>
        /\ Scan(codes, scored, MIN_MATCH_SCORE) =
              [best_score |-> best_score, score_to_codes |-> score_to_codes]
        /\ \A best_score_codes \in TiedEnumerations(best_score, score_to_codes) :
              Resolve(best_score, score_to_codes, data_df, MIN_MATCH_SCORE,
                      best_score_codes) = result

\* Two codes tie at the threshold: the tied set can be enumerated in two orders.
C13_Witness ==
    /\ pc = "returned"
    /\ scored = <<75, 75>>
    /\ Cardinality(TiedEnumerations(best_score, score_to_codes)) = 2
    /\ IsListing(result.answer)

\* The scan of the codes of this run taken in the order perm, each code with
\* the score it has in this run.
ScanInOrder(perm) ==
    Scan([k \in DOMAIN codes |-> codes[perm[k]]],
         [k \in DOMAIN codes |-> scored[perm[k]]], MIN_MATCH_SCORE)

\* C14 (arg-max equivalence, order independence): when the scan has returned,
\* in whatever order the unique codes are scanned the best score is the highest
\* score of all codes; when it is at least MIN_MATCH_SCORE the tied codes are
\* exactly the codes with that score, each once, and otherwise the result is no
\* match.  The run itself ends so.
C14_ArgMax ==
    pc = "returned" =>
        /\ best_score = MaxOf(scored)
        /\ MaxOf(scored) >= MIN_MATCH_SCORE => (Recorded = ArgMax /\ result.found)
        /\ MaxOf(scored) < MIN_MATCH_SCORE => result = [found |-> FALSE, answer |-> NoneValue]
        /\ \A perm \in Enumerations(DOMAIN codes) :
              LET acc == ScanInOrder(perm)
              IN  /\ acc.best_score = MaxOf(scored)
                  /\ MaxOf(scored) >= MIN_MATCH_SCORE =>
                        /\ DOMAIN acc.score_to_codes = {acc.best_score}
                        /\ Range(acc.score_to_codes[acc.best_score]) = ArgMax
                        /\ Len(acc.score_to_codes[acc.best_score]) = Cardinality(ArgMax)
                  /\ MaxOf(scored) < MIN_MATCH_SCORE =>
                        \A best_score_codes \in TiedEnumerations(acc.best_score, acc.score_to_codes) :
                            Resolve(acc.best_score, acc.score_to_codes, data_df, MIN_MATCH_SCORE,
                                    best_score_codes) = [found |-> FALSE, answer |-> NoneValue]

\* The code scanned second ties with the first at a score that passes the
\* threshold: both are recorded.
C14_Witness ==
    /\ pc = "returned"
    /\ Len(scored) = 2
    /\ scored[1] = scored[2]
    /\ scored[1] >= MIN_MATCH_SCORE
    /\ Recorded = Range(codes)
    /\ Cardinality(Recorded) = 2
    /\ result.found

\* best_score is the highest score scanned so far, and score_to_codes is empty
\* as long as that is 0 and has the one key best_score from then on.
ScoreEntry ==
    /\ best_score = MaxOf(scored)
    /\ DOMAIN score_to_codes \in {{}, {best_score}}
    /\ best_score > 0 => best_score \in DOMAIN score_to_codes

\* C15 (score-entry invariant): at every step of the scan best_score is the
\* highest score of the codes scanned so far, 0 when none is above 0, and it
\* never decreases; score_to_codes is empty or has the single key best_score,
\* so that score_to_codes[best_score] is defined whenever the threshold check
\* is passed.
C15_ScoreEntry ==
    /\ ScoreEntry
    /\ [][ /\ best_score' >= best_score
           /\ ScoreEntry'
           /\ (best_score' >= MIN_MATCH_SCORE /\ score_to_codes' # <<>>)
                 => best_score' \in DOMAIN score_to_codes' ]_vars

\* A code scoring 60 was scanned, then one scoring 100: the key 60 is gone.
C15_Witness ==
    /\ pc = "scan"
    /\ scored = <<60, 100>>
    /\ best_score = 100
    /\ DOMAIN score_to_codes = {100}

\* The code scanned first among those that score the best score so far.
FirstAtBest ==
    codes[CHOOSE k \in DOMAIN scored :
            /\ scored[k] = best_score
            /\ \A j \in DOMAIN scored : scored[j] = best_score => k <= j]

\* C16 (sub-threshold ties are never recorded): at every step of the scan,
\* while best_score is below MIN_MATCH_SCORE score_to_codes holds at most one
\* code, the first that reached best_score, however many codes tie at that
\* score; and the scan then returns no match, never an ambiguity listing.
C16_SubThresholdTies ==
    best_score < MIN_MATCH_SCORE =>
        /\ Cardinality(Recorded) <= 1
        /\ \A s \in DOMAIN score_to_codes : Len(score_to_codes[s]) = 1
        /\ Recorded # {} => Recorded = {FirstAtBest}
        /\ pc = "returned" => (~result.found /\ ~IsListing(result.answer))

\* Two codes tie at 60: only the first is recorded and nothing is found.
C16_Witness ==
    /\ pc = "returned"
    /\ scored = <<60, 60>>
    /\ Cardinality(ArgMax) = 2
    /\ Recorded = {codes[1]}
    /\ ~result.found

\* The history starts with the greeting and alternates assistant, user,
\* assistant, ..., ending with an assistant message.
HistoryShape ==
    /\ Len(messages) = 2 * turns + 1
    /\ messages[1] = Message("assistant", <<INITIAL_GREETING>>)
    /\ \A i \in DOMAIN messages :
          messages[i].role = (IF i % 2 = 1 THEN "assistant" ELSE "user")

====
